---- MODULE Spec2Model ----
(***************************************************************************)
(* The three scripts of the repository as one state machine.  One run of  *)
(* the model is one run of ONE script, chosen in Init:                     *)
(*   02_chatbot.py  - chainlit chat handlers start_chat / handle_msg over  *)
(*                    the per-session "history" list;                      *)
(*   news_agent.py  - the blocking news-lookup read loop;                  *)
(*   config.py      - the configuration module (import only).              *)
(* Python lists are objects: the session store holds a REFERENCE to a list *)
(* and handle_msg mutates the list through its local reference, so lists   *)
(* live in a heap and the store and the locals hold list ids.              *)
(* External collaborators (Runner.run / Runner.run_sync, AsyncOpenAI, the  *)
(* chainlit event loop, stdin) are nondeterministic choices.               *)
(***************************************************************************)
EXTENDS Naturals, Sequences, FiniteSets, TLC

VARIABLES
    script,     \* which script this run executes
    envKey,     \* value os.getenv gives for the script's API-key variable
    proc,       \* process state: "import", "fatal", "running", "done", "crashed"
    \* ---- 02_chatbot.py
    store,      \* cl.user_session "history" entry per session: a list id or None
    heap,       \* list id -> contents of that list object
    pc,         \* per session: "idle", or "awaiting" (handle_msg suspended at Runner.run)
    hist,       \* per session: handle_msg's local `history` reference while it runs
    cur,        \* per session: message.content of the handle_msg activation in progress
    emitted,    \* per session: what the latest handler activation sent to the UI
    escaped,    \* per session: the latest handler activation ended by a raised exception
    lastEvent,  \* per session: "none", "start", "message" (kind of the latest activation)
    origin,     \* per session: "never" started, "fresh" start, "restart" over old messages
    turns,      \* per session: the handle_msg turns since the last start_chat
    \* ---- news_agent.py
    stdin,      \* the input lines not read yet
    consumed,   \* the input lines read so far, in order
    invoked,    \* the inputs Runner.run_sync was called with, in order
    printed,    \* what the loop printed (beyond the prompt), in order
    crash       \* the exception that ended the CLI process, or "none"

vars == <<script, envKey, proc, store, heap, pc, hist, cur, emitted, escaped,
          lastEvent, origin, turns, stdin, consumed, invoked, printed, crash>>

chatVars == <<store, heap, pc, hist, cur, emitted, escaped, lastEvent, origin, turns>>
cliVars == <<stdin, consumed, invoked, printed, crash>>

----------------------------------------------------------------------------
(* Bounds *)

MaxTurns == 3       \* handle_msg turns per session between two start_chat calls
MaxLines == 4       \* length of the CLI's input

----------------------------------------------------------------------------
(* Startup: the API key *)

Scripts == {"02_chatbot", "news_agent", "config"}
KeyValues == {"missing", "empty", "set"}

\* Python truthiness of os.getenv's result: None and "" are falsy.
Truthy(k) == k = "set"

\* news_agent.py 7-9 and config.py 5-7: `if not key: raise ValueError(...)`.
KeyCheckRaises(k) == ~Truthy(k)

\* 02_chatbot.py 9-12 passes os.getenv's result to AsyncOpenAI unchecked.  Whether
\* the library's constructor raises for a missing or empty key is outside the
\* repository: both outcomes are possible.  A set key constructs the provider.
ProviderOutcomes(k) == IF Truthy(k) THEN {"constructed"} ELSE {"constructed", "raised"}

----------------------------------------------------------------------------
(* 02_chatbot.py: data *)

SessionOrder == <<"s1", "s2">>
Sessions == {SessionOrder[i] : i \in DOMAIN SessionOrder}

\* The absent reference (Python's None; no "history" entry), and the absent text.
None == 0
NoText == <<>>

\* What the user of session s types next, and what the model answers to the
\* request session s has in flight.  The code never looks into a text, so one
\* text per turn is enough, provided no two turns of a conversation share it:
\* a text carries the session it was typed in (or generated for) and the number
\* of the turn since the last session start, which makes the provenance and the
\* order of every stored message visible.
Texts(s) == {<<s, "msg", Len(turns[s]) + 1>>}
Replies(s) == {<<s, "answer", Len(turns[s]) + 1>>}
Greeting == "Hello! I am your assistant. How can I help you today?"

\* {"role": "user", "content": message.content}
UserMsg(t) == [role |-> "user", content |-> t]
\* {"role": "assistant", "content": result.final_output}
AssistantMsg(r) == [role |-> "assistant", content |-> r]

\* List objects.  With the lists the sessions refer to there is always room for
\* one more.
ObjIds == 1 .. (Cardinality(Sessions) + 1)

Live(st, hs) == ({st[s] : s \in Sessions} \cup {hs[s] : s \in Sessions}) \ {None}

\* The identity of a list object is opaque: a state is kept up to a renaming of
\* the list ids, the lists numbered in the order store[s1], hist[s1], store[s2],
\* ... first refers to them.  A list no reference reaches is reclaimed and its
\* slot reads as a new empty list.
Refs(st, hs) ==
    [i \in 1 .. (2 * Len(SessionOrder)) |->
        IF i % 2 = 1 THEN st[SessionOrder[(i + 1) \div 2]] ELSE hs[SessionOrder[i \div 2]]]

Ranks(st, hs) ==
    LET R == Refs(st, hs)
    IN [ref \in Live(st, hs) |->
          LET first == CHOOSE i \in DOMAIN R : R[i] = ref /\ \A j \in 1 .. (i - 1) : R[j] # ref
          IN Cardinality({R[j] : j \in 1 .. first} \ {None})]

\* The next state's store, locals and heap, given the ones the handler left.
Commit(hp, st, hs) ==
    LET rank == Ranks(st, hs)
        Rename(ref) == IF ref = None THEN None ELSE rank[ref]
    IN /\ store' = [s \in Sessions |-> Rename(st[s])]
       /\ hist' = [s \in Sessions |-> Rename(hs[s])]
       /\ heap' = [i \in ObjIds |->
                     IF \E ref \in DOMAIN rank : rank[ref] = i
                     THEN hp[CHOOSE ref \in DOMAIN rank : rank[ref] = i]
                     ELSE <<>>]

\* A faulty variant of NewList: one module-level list shared by every `[]`.
SharedList == CHOOSE i \in ObjIds : \A j \in ObjIds : i <= j

\* The list literal `[]`: a new list object, distinct from every live one.
NewList == CHOOSE i \in ObjIds : i \notin Live(store, hist)
                                 /\ \A j \in ObjIds : j \notin Live(store, hist) => i <= j

\* A faulty variant of SessionSet: setdefault, an existing entry is kept.
SessionSetDefault(s, ref) == IF store[s] = None THEN [store EXCEPT ![s] = ref] ELSE store

\* cl.user_session.set("history", ref)
SessionSet(s, ref) == [store EXCEPT ![s] = ref]

\* cl.user_session.get("history", []): the stored reference, or a new empty list
\* that is NOT stored.
SessionGet(s) == IF store[s] # None THEN store[s] ELSE NewList

\* A faulty variant of AppendUser: the user message is not appended.
AppendUserSkipped(h, t) == h

\* A faulty variant of AppendUser: a user message directly after a user message is dropped
\* ("keep the roles alternating").
AppendUserAlternating(h, t) ==
    IF h # <<>> /\ h[Len(h)].role = "user" THEN h ELSE Append(h, UserMsg(t))

\* history.append({"role": "user", "content": message.content})
AppendUser(h, t) == Append(h, UserMsg(t))

\* A faulty variant of AppendAssistant: the reply is sent but not recorded.
AppendAssistantSkipped(h, r) == h

\* history.append({"role": "assistant", "content": result.final_output})
AppendAssistant(h, r) == Append(h, AssistantMsg(r))

\* The history the session store holds for s (no entry reads as no messages).
History(s) == IF store[s] = None THEN <<>> ELSE heap[store[s]]

\* The `input=history` argument of the Runner.run call session s is suspended at.
ShimInput(s) == heap[hist[s]]

ChatServing == script = "02_chatbot" /\ proc = "running"

----------------------------------------------------------------------------
(* 02_chatbot.py: operations *)

\* Module import: provider, model, config and agent are constructed and the two
\* handlers registered.  The script itself checks nothing.
ChatbotImport(outcome) ==
    /\ script = "02_chatbot" /\ proc = "import"
    /\ outcome \in ProviderOutcomes(envKey)
    /\ proc' = IF outcome = "raised" THEN "fatal" ELSE "running"
    /\ UNCHANGED <<script, envKey, chatVars, cliVars>>

\* @cl.on_chat_start.  Events of one session do not interleave: the handler runs
\* only while no handle_msg of the same session is suspended.
StartChat(s) ==
    /\ ChatServing /\ pc[s] = "idle"
    /\ LET ref == NewList
       IN Commit([heap EXCEPT ![ref] = <<>>], SessionSet(s, ref), hist)
    /\ emitted' = [emitted EXCEPT ![s] = <<Greeting>>]
    /\ escaped' = [escaped EXCEPT ![s] = FALSE]
    /\ lastEvent' = [lastEvent EXCEPT ![s] = "start"]
    /\ origin' = [origin EXCEPT ![s] = IF History(s) = <<>> THEN "fresh" ELSE "restart"]
    /\ turns' = [turns EXCEPT ![s] = <<>>]
    /\ UNCHANGED <<script, envKey, proc, pc, cur, cliVars>>

\* @cl.on_message, up to the suspension at `await Runner.run(...)`.
HandleMsgBegin(s, t) ==
    /\ ChatServing /\ pc[s] = "idle"
    /\ Len(turns[s]) < MaxTurns
    /\ LET ref == SessionGet(s)
       IN Commit([heap EXCEPT ![ref] = AppendUser(heap[ref], t)],
                 store, [hist EXCEPT ![s] = ref])
    /\ cur' = [cur EXCEPT ![s] = t]
    /\ pc' = [pc EXCEPT ![s] = "awaiting"]
    /\ emitted' = [emitted EXCEPT ![s] = <<>>]
    /\ escaped' = [escaped EXCEPT ![s] = FALSE]
    /\ lastEvent' = [lastEvent EXCEPT ![s] = "message"]
    /\ UNCHANGED <<script, envKey, proc, origin, turns, cliVars>>

\* Runner.run returned `result`: append the reply, store the list, send the reply.
HandleMsgOk(s, r) ==
    /\ ChatServing /\ pc[s] = "awaiting"
    /\ Commit([heap EXCEPT ![hist[s]] = AppendAssistant(heap[hist[s]], r)],
              SessionSet(s, hist[s]), [hist EXCEPT ![s] = None])
    /\ emitted' = [emitted EXCEPT ![s] = <<r>>]
    /\ pc' = [pc EXCEPT ![s] = "idle"]
    /\ cur' = [cur EXCEPT ![s] = NoText]
    /\ turns' = [turns EXCEPT ![s] = Append(@, [text |-> cur[s], ok |-> TRUE, reply |-> r])]
    /\ UNCHANGED <<script, envKey, proc, escaped, lastEvent, origin, cliVars>>

\* Runner.run raised: there is no try/except, the exception leaves handle_msg at
\* line 52, lines 57-59 do not run and the local reference is dropped.  The
\* event loop that called the handler goes on serving the session.
HandleMsgFail(s) ==
    /\ ChatServing /\ pc[s] = "awaiting"
    /\ Commit(heap, store, [hist EXCEPT ![s] = None])
    /\ escaped' = [escaped EXCEPT ![s] = TRUE]
    /\ pc' = [pc EXCEPT ![s] = "idle"]
    /\ cur' = [cur EXCEPT ![s] = NoText]
    /\ turns' = [turns EXCEPT ![s] = Append(@, [text |-> cur[s], ok |-> FALSE, reply |-> NoText])]
    /\ UNCHANGED <<script, envKey, proc, emitted, lastEvent, origin, cliVars>>

----------------------------------------------------------------------------
(* news_agent.py and config.py *)

\* Input lines are sequences of characters, so that str.lower() is computed.
ExitWord == <<"e", "x", "i", "t">>
Lines == { ExitWord,
           <<"E", "X", "I", "T">>,
           <<"E", "x", "i", "t">>,
           <<"c", "a", "t", "s">>,
           <<"e", "x", "i", "t", "s">> }

Inputs == UNION {[1 .. n -> Lines] : n \in 0 .. MaxLines}

LowerChar(c) ==
    CASE c = "E" -> "e"
      [] c = "X" -> "x"
      [] c = "I" -> "i"
      [] c = "T" -> "t"
      [] c = "C" -> "c"
      [] c = "A" -> "a"
      [] c = "S" -> "s"
      [] OTHER -> c

\* A faulty variant of Lower: the comparison is made on the line as typed.
LowerForgotten(line) == line

\* str.lower()
Lower(line) == [i \in 1 .. Len(line) |-> LowerChar(line[i])]

\* `if query.lower() == 'exit'`
IsExit(query) == Lower(query) = ExitWord

\* print("\n" + "="*50 + "\n")
SeparatorWidth == 50

\* The three print calls after a returned Runner.run_sync: "\nResult:", the final
\* output (the collaborator's text for this query alone), the separator line.
ResultBlock(query) ==
    [header |-> "Result:", output |-> <<"news", query>>, separator |-> SeparatorWidth]

\* config.py: the key check, then the client, model and config objects.  The module
\* defines no entry surface; a completed import is the end of what it does.
ConfigImport ==
    /\ script = "config" /\ proc = "import"
    /\ proc' = IF KeyCheckRaises(envKey) THEN "fatal" ELSE "done"
    /\ UNCHANGED <<script, envKey, chatVars, cliVars>>

\* news_agent.py 5-19: load_dotenv, the key check, the agent.
NewsAgentImport ==
    /\ script = "news_agent" /\ proc = "import"
    /\ proc' = IF KeyCheckRaises(envKey) THEN "fatal" ELSE "running"
    /\ UNCHANGED <<script, envKey, chatVars, cliVars>>

CliRunning == script = "news_agent" /\ proc = "running"

\* One iteration: input() at end of input raises EOFError, which nothing catches.
CliEof ==
    /\ CliRunning /\ stdin = <<>>
    /\ proc' = "crashed"
    /\ crash' = "EOFError"
    /\ UNCHANGED <<script, envKey, chatVars, stdin, consumed, invoked, printed>>

\* One iteration: the line read is "exit" in some letter case: break.
CliExit ==
    /\ CliRunning /\ stdin # <<>>
    /\ IsExit(Head(stdin))
    /\ stdin' = Tail(stdin)
    /\ consumed' = Append(consumed, Head(stdin))
    /\ proc' = "done"
    /\ UNCHANGED <<script, envKey, chatVars, invoked, printed, crash>>

\* One iteration: Runner.run_sync(news_agent, query) returns; the result is printed.
CliInvokeOk ==
    /\ CliRunning /\ stdin # <<>>
    /\ ~IsExit(Head(stdin))
    /\ stdin' = Tail(stdin)
    /\ consumed' = Append(consumed, Head(stdin))
    /\ invoked' = Append(invoked, Head(stdin))
    /\ printed' = Append(printed, ResultBlock(Head(stdin)))
    /\ UNCHANGED <<script, envKey, proc, chatVars, crash>>

\* One iteration: Runner.run_sync raises; there is no try/except around line 25, so
\* the exception ends the loop and the process.
CliInvokeFail ==
    /\ CliRunning /\ stdin # <<>>
    /\ ~IsExit(Head(stdin))
    /\ stdin' = Tail(stdin)
    /\ consumed' = Append(consumed, Head(stdin))
    /\ invoked' = Append(invoked, Head(stdin))
    /\ proc' = "crashed"
    /\ crash' = "RemoteInvocationFailed"
    /\ UNCHANGED <<script, envKey, chatVars, printed>>

----------------------------------------------------------------------------
(* The specification *)

Init ==
    /\ script \in Scripts
    /\ envKey \in KeyValues
    /\ proc = "import"
    /\ store = [s \in Sessions |-> None]
    /\ heap = [i \in ObjIds |-> <<>>]
    /\ pc = [s \in Sessions |-> "idle"]
    /\ hist = [s \in Sessions |-> None]
    /\ cur = [s \in Sessions |-> NoText]
    /\ emitted = [s \in Sessions |-> <<>>]
    /\ escaped = [s \in Sessions |-> FALSE]
    /\ lastEvent = [s \in Sessions |-> "none"]
    /\ origin = [s \in Sessions |-> "never"]
    /\ turns = [s \in Sessions |-> <<>>]
    /\ stdin \in (IF script = "news_agent" THEN Inputs ELSE {<<>>})
    /\ consumed = <<>>
    /\ invoked = <<>>
    /\ printed = <<>>
    /\ crash = "none"

Next ==
    \/ \E o \in {"constructed", "raised"} : ChatbotImport(o)
    \/ \E s \in Sessions : StartChat(s)
    \/ \E s \in Sessions : \E t \in Texts(s) : HandleMsgBegin(s, t)
    \/ \E s \in Sessions : \E r \in Replies(s) : HandleMsgOk(s, r)
    \/ \E s \in Sessions : HandleMsgFail(s)
    \/ ConfigImport
    \/ NewsAgentImport
    \/ CliEof
    \/ CliExit
    \/ CliInvokeOk
    \/ CliInvokeFail

Spec == Init /\ [][Next]_vars

----------------------------------------------------------------------------
(* Properties.  They are stated on the stored history and the handlers'      *)
(* observable effects, with the messages written out, not through the        *)
(* operators the handlers are built from.                                    *)

User(s, k) == [role |-> "user", content |-> <<s, "msg", k>>]
Assistant(s, k) == [role |-> "assistant", content |-> <<s, "answer", k>>]

Started(s) == origin[s] # "never"
Idle(s) == ChatServing /\ pc[s] = "idle"
AllOk(tn) == \A k \in 1 .. Len(tn) : tn[k].ok
\* The first n turns of tn returned, and turn n + 1 raised.
FailsAt(tn, n) == Len(tn) > n /\ ~tn[n + 1].ok /\ \A k \in 1 .. n : tn[k].ok

\* C1: after session start and N turns whose Runner.run call returned, handled
\* one at a time, the stored history has exactly 2N entries; entry 2k-1 is the
\* k-th user message and entry 2k the k-th reply.
C1_AlternatingHistory ==
    \A s \in Sessions :
        (Idle(s) /\ Started(s) /\ AllOk(turns[s])) =>
            /\ Len(History(s)) = 2 * Len(turns[s])
            /\ \A k \in 1 .. Len(turns[s]) :
                  /\ History(s)[2 * k - 1] = User(s, k)
                  /\ History(s)[2 * k] = Assistant(s, k)
                  /\ turns[s][k].text = <<s, "msg", k>>
                  /\ turns[s][k].reply = <<s, "answer", k>>

C1_Witness ==
    \E s \in Sessions :
        Idle(s) /\ Started(s) /\ AllOk(turns[s]) /\ Len(turns[s]) >= 3
        /\ Len(History(s)) >= 6

\* C2: in a started session, when the N-th Runner.run call raises after N-1 turns
\* that returned, the stored history has 2(N-1)+1 entries, the last being the
\* N-th user message and none an assistant message for that turn; the next
\* message is appended to it, Runner.run is called with the whole of it, and when
\* it returns the reply is appended.
C2_FailureIsolation ==
    \A s \in Sessions : \A n \in 0 .. Len(turns[s]) :
        (ChatServing /\ Started(s) /\ FailsAt(turns[s], n)) =>
            LET h == History(s) IN
            /\ Len(h) >= 2 * n + 1
            /\ \A k \in 1 .. n : h[2 * k - 1] = User(s, k) /\ h[2 * k] = Assistant(s, k)
            /\ h[2 * n + 1] = User(s, n + 1)
            /\ (Len(turns[s]) = n + 1 /\ pc[s] = "idle") => Len(h) = 2 * n + 1
            /\ (Len(turns[s]) = n + 1 /\ pc[s] = "awaiting") =>
                  /\ Len(h) = 2 * n + 2
                  /\ h[2 * n + 2] = User(s, n + 2)
                  /\ ShimInput(s) = h
            /\ (Len(turns[s]) = n + 2 /\ pc[s] = "idle" /\ turns[s][n + 2].ok) =>
                  /\ Len(h) = 2 * n + 3
                  /\ h[2 * n + 2] = User(s, n + 2)
                  /\ h[2 * n + 3] = Assistant(s, n + 2)

C2_Witness ==
    \E s \in Sessions :
        /\ Idle(s) /\ Started(s) /\ Len(turns[s]) = 3
        /\ turns[s][1].ok /\ ~turns[s][2].ok /\ turns[s][3].ok
        /\ Len(History(s)) = 5

\* C3: session start sends one greeting; every message handled by handle_msg ends
\* with exactly one message sent to the UI, the reply when Runner.run returned
\* and an error artifact when it raised, and no exception leaves the handler.
C3_OneEmissionPerEvent ==
    \A s \in Sessions :
        (Idle(s) /\ Started(s) /\ envKey = "set") =>
            /\ lastEvent[s] = "start" => emitted[s] = <<Greeting>>
            /\ lastEvent[s] = "message" =>
                  /\ Len(emitted[s]) = 1
                  /\ ~escaped[s]
                  /\ turns[s][Len(turns[s])].ok => emitted[s] = <<turns[s][Len(turns[s])].reply>>

\* C4: a raising Runner.run_sync does not end the news loop: the error is
\* reported and the next line is read; at the normal exit every line before the
\* exit line was invoked, each giving one Result block or one reported error.
C4_CliResilience ==
    /\ crash # "RemoteInvocationFailed"
    /\ (script = "news_agent" /\ proc = "done") =>
          /\ Len(invoked) = Len(consumed) - 1
          /\ Len(printed) <= Len(invoked)

\* The spellings of "exit" in every letter case.
ExitAnyCase ==
    {w \in [1 .. 4 -> {"e", "E", "x", "X", "i", "I", "t", "T"}] :
        /\ w[1] \in {"e", "E"} /\ w[2] \in {"x", "X"}
        /\ w[3] \in {"i", "I"} /\ w[4] \in {"t", "T"}}

NotExitLine(line) == line \notin ExitAnyCase

\* C5: while Runner.run_sync returns, the loop has invoked it once for each line
\* read that is not "exit" in some letter case, in order, with that line alone,
\* and printed one Result block for it; it stops at the first line that is
\* "exit" in any letter case, without invoking for it and without reading on.
C5_CliLoop ==
    (script = "news_agent" /\ crash # "RemoteInvocationFailed") =>
        /\ invoked = SelectSeq(consumed, NotExitLine)
        /\ Len(printed) = Len(invoked)
        /\ \A i \in 1 .. Len(printed) : printed[i].output = <<"news", invoked[i]>>
        /\ \A i \in 1 .. Len(consumed) :
              consumed[i] \in ExitAnyCase <=> (i = Len(consumed) /\ proc = "done")
        /\ proc = "done" => (consumed # <<>> /\ ~ENABLED Next)
        /\ (proc = "running" /\ stdin # <<>> /\ Head(stdin) \in ExitAnyCase) =>
              (~ENABLED CliInvokeOk /\ ENABLED CliExit)

C5_Witness ==
    /\ script = "news_agent" /\ proc = "done"
    /\ Len(invoked) = 2
    /\ consumed[Len(consumed)] = <<"E", "X", "I", "T">>
    /\ stdin # <<>>

\* C6: whatever the interleaving of the two sessions' events, the stored history
\* of a session and the input of the Runner.run call it is suspended at hold
\* only messages of that session.
C6_SessionIsolation ==
    \A s \in Sessions :
        /\ \A i \in 1 .. Len(History(s)) : History(s)[i].content[1] = s
        /\ pc[s] = "awaiting" =>
              \A i \in 1 .. Len(ShimInput(s)) : ShimInput(s)[i].content[1] = s

C6_Witness ==
    \E s1, s2 \in Sessions :
        /\ s1 # s2
        /\ pc[s1] = "awaiting" /\ pc[s2] = "awaiting"
        /\ Len(ShimInput(s1)) >= 3 /\ Len(ShimInput(s2)) >= 2
        /\ Started(s1) /\ ~Started(s2)

\* C7: start_chat leaves the session's stored history empty whatever it held, and
\* leaves it as it is when it is already freshly started; the first turn that
\* returns after a restart gives exactly [user, assistant].
C7_StartResets ==
    /\ [][\A s \in Sessions :
            StartChat(s) =>
                /\ store'[s] # None
                /\ History(s)' = <<>>
                /\ (lastEvent[s] = "start" =>
                      (History(s)' = History(s) /\ emitted'[s] = emitted[s]
                       /\ turns'[s] = turns[s]))]_vars
    /\ [](\A s \in Sessions :
            (Idle(s) /\ origin[s] = "restart" /\ Len(turns[s]) = 1 /\ turns[s][1].ok) =>
                History(s) = <<User(s, 1), Assistant(s, 1)>>)

C7_Witness ==
    \E s \in Sessions :
        /\ Idle(s) /\ origin[s] = "restart" /\ Len(turns[s]) = 1 /\ turns[s][1].ok
        /\ Len(History(s)) = 2

\* C8: the Runner.run call handle_msg is suspended at was given the session's
\* whole history, whose last entry is the user message just received; the input
\* holds one user message per call made since the session started, so no call
\* is made without a new user message, also after a turn that raised.
C8_InvocationInput ==
    \A s \in Sessions :
        pc[s] = "awaiting" =>
            LET in == ShimInput(s) IN
            /\ in # <<>>
            /\ cur[s] = <<s, "msg", Len(turns[s]) + 1>>
            /\ in[Len(in)] = [role |-> "user", content |-> cur[s]]
            /\ store[s] # None => in = History(s)
            /\ Started(s) =>
                  Cardinality({i \in 1 .. Len(in) : in[i].role = "user"}) = Len(turns[s]) + 1

C8_Witness ==
    \E s \in Sessions :
        /\ pc[s] = "awaiting" /\ Started(s)
        /\ Len(turns[s]) >= 2 /\ ~turns[s][Len(turns[s])].ok
        /\ turns[s][1].ok

\* C9: in each script a missing or empty API key stops the start: no chat handler
\* runs, no prompt is read, Runner is never called.
C9_FailFast ==
    envKey \in {"missing", "empty"} =>
        /\ \A s \in Sessions : lastEvent[s] = "none" /\ pc[s] = "idle"
        /\ consumed = <<>>
        /\ invoked = <<>>

\* C10: a first message in a session that was never started leaves in the store
\* every message the turn appended: [user, assistant] when Runner.run returned,
\* [user] when it raised.
C10_UninitializedTurn ==
    \A s \in Sessions :
        (Idle(s) /\ ~Started(s) /\ envKey = "set" /\ Len(turns[s]) = 1) =>
            History(s) = IF turns[s][1].ok THEN <<User(s, 1), Assistant(s, 1)>>
                                           ELSE <<User(s, 1)>>

====
